---- MODULE Spec2Model ----
(***************************************************************************)
(* Model of matrix_library (src/src/lib.rs): the Matrix<T> value type, its *)
(* constructors, transpose, element-wise add / multiply with the column    *)
(* broadcast of add, matmul, dim_sum, the indexed accessors and the        *)
(* draining iterator.                                                      *)
(*                                                                         *)
(* A Matrix is the record [values, nrows, ncols] of lib.rs:15-19; values   *)
(* is a sequence of rows (VecDeque<VecDeque<T>>), nrows and ncols are the  *)
(* cached counts.  Source indices are 0-based, sequences here are 1-based. *)
(*                                                                         *)
(* The element type T is a parameter of the library.  The model            *)
(* instantiates it with a saturating signed integer (a type with Clone,    *)
(* Add, Mul and AddAssign whose addition is not associative, like f64), so *)
(* that the order in which a sum is accumulated is observable.             *)
(*                                                                         *)
(* A panic (a failed unwrap / expect, an out-of-range index, panic!) is    *)
(* the outcome Panic; a returned Err is a record of kind "Err".            *)
(*                                                                         *)
(* Spec applies one operation to freshly constructed operands, every pair  *)
(* of constructed matrices meeting in every binary operation.  SpecLife    *)
(* follows one object through any sequence of operations.                  *)
(***************************************************************************)
EXTENDS Integers, Sequences, FiniteSets, TLC

\* ------------------------------------------------------------------ bounds

\* A constructed matrix has at most MaxCells cells (rows * cols <= MaxCells).
MaxCells == 6

\* The same bound for the object whose whole life is followed.
MaxLifeCells == 4

\* The element type saturates at -ElMax and ElMax.
ElMax == 2

\* transpose is applied at most MaxRun times in a row to one object.
MaxRun == 3

\* next() is called at most ExtraPulls times more than nrows * ncols.
ExtraPulls == 2

\* Cell values the constructors are given.
Elems == {-1, 2}

\* ------------------------------------------------------------ element type

Clamp(x) == IF x > ElMax THEN ElMax ELSE IF x < -ElMax THEN -ElMax ELSE x

\* T: Add<Output = T> / AddAssign
ElAdd(x, y) == Clamp(x + y)

\* T: Mul<Output = T>
ElMul(x, y) == Clamp(x * y)

\* ---------------------------------------------------------------- outcomes

Panic == [kind |-> "Panic"]

Ok(m) == [kind |-> "Ok", mat |-> m]

\* MatrixError::DimMismatch(a, b)
DimMismatch(sa, sb) == [kind |-> "Err", err |-> "DimMismatch", a |-> sa, b |-> sb]

None == [kind |-> "None"]

Some(x) == [kind |-> "Some", el |-> x]

\* ------------------------------------------------- construction, shape, at

\* Matrix::new: data[0] is an out-of-range index when data is empty.
new(data) ==
    IF Len(data) = 0 THEN Panic
    ELSE Ok([values |-> data, nrows |-> Len(data), ncols |-> Len(data[1])])

\* Matrix::from_vecs: copies every row, same counts as new.
from_vecs(data) ==
    IF Len(data) = 0 THEN Panic
    ELSE Ok([values |-> [j \in 1..Len(data) |-> [i \in 1..Len(data[j]) |-> data[j][i]]],
             nrows |-> Len(data), ncols |-> Len(data[1])])

shape(m) == <<m.nrows, m.ncols>>

\* Matrix::at with 0-based idxs = (j, i): None when out of range.
at(m, j, i) ==
    IF j + 1 \in 1..Len(m.values)
    THEN IF i + 1 \in 1..Len(m.values[j + 1]) THEN Some(m.values[j + 1][i + 1]) ELSE None
    ELSE None

\* Matrix::at_mut followed by a write of v through the returned reference.
at_mut(m, j, i, v) ==
    IF at(m, j, i).kind = "Some"
    THEN [m EXCEPT !.values[j + 1][i + 1] = v]
    ELSE m

\* --------------------------------------------------------------- transpose

RECURSIVE TransposeRowPushFront(_, _, _, _)
\* Mutant of TransposeRow: the popped element is pushed to the front of row.
TransposeRowPushFront(vals, j, nrows, row) ==
    IF j >= nrows THEN [kind |-> "Ok", vals |-> vals, row |-> row]
    ELSE IF j + 1 > Len(vals) THEN Panic
    ELSE IF Len(vals[j + 1]) = 0 THEN Panic
    ELSE TransposeRowPushFront([vals EXCEPT ![j + 1] = Tail(@)], j + 1, nrows,
                               <<Head(vals[j + 1])>> \o row)

RECURSIVE TransposeRow(_, _, _, _)
\* lib.rs:101-106, the inner loop: pops the front of every row j < nrows.
TransposeRow(vals, j, nrows, row) ==
    IF j >= nrows THEN [kind |-> "Ok", vals |-> vals, row |-> row]
    ELSE IF j + 1 > Len(vals) THEN Panic
    ELSE IF Len(vals[j + 1]) = 0 THEN Panic
    ELSE TransposeRow([vals EXCEPT ![j + 1] = Tail(@)], j + 1, nrows,
                      Append(row, Head(vals[j + 1])))

RECURSIVE TransposeLoopPushFront(_, _, _, _, _)
\* Mutant of TransposeLoop: each finished row is pushed to the front of res.
TransposeLoopPushFront(vals, i, ncols, nrows, res) ==
    IF i >= ncols THEN new(res)
    ELSE LET r == TransposeRow(vals, 0, nrows, <<>>)
         IN  IF r.kind = "Panic" THEN Panic
             ELSE TransposeLoopPushFront(r.vals, i + 1, ncols, nrows, <<r.row>> \o res)

RECURSIVE TransposeLoop(_, _, _, _, _)
\* lib.rs:99-109, the outer loop over 0..ncols, then Matrix::new(res).
TransposeLoop(vals, i, ncols, nrows, res) ==
    IF i >= ncols THEN new(res)
    ELSE LET r == TransposeRow(vals, 0, nrows, <<>>)
         IN  IF r.kind = "Panic" THEN Panic
             ELSE TransposeLoop(r.vals, i + 1, ncols, nrows, Append(res, r.row))

\* Matrix::transpose, lib.rs:96-110.
transpose(m) == TransposeLoop(m.values, 0, m.ncols, m.nrows, <<>>)

\* ------------------------------------------------------------------- next

\* Mutant of next: after popping the empty first row, the call returns None
\* without looking at the row that follows.
next_stops_at_row_end(m) ==
    IF Len(m.values) >= 1
    THEN IF Len(m.values[1]) >= 1
         THEN [ret |-> Some(Head(m.values[1])),
               mat |-> [m EXCEPT !.values[1] = Tail(@)]]
         ELSE [ret |-> None, mat |-> [m EXCEPT !.values = Tail(m.values)]]
    ELSE [ret |-> None, mat |-> m]

\* Iterator::next, lib.rs:133-149: the element returned and the matrix left.
\* nrows and ncols are not touched.
next(m) ==
    IF Len(m.values) >= 1
    THEN IF Len(m.values[1]) >= 1
         THEN [ret |-> Some(Head(m.values[1])),
               mat |-> [m EXCEPT !.values[1] = Tail(@)]]
         ELSE LET rest == Tail(m.values)   \* pop empty first row
              IN  IF Len(rest) >= 1 /\ Len(rest[1]) >= 1
                  THEN [ret |-> Some(Head(rest[1])),
                        mat |-> [m EXCEPT !.values = [rest EXCEPT ![1] = Tail(@)]]]
                  ELSE [ret |-> None, mat |-> [m EXCEPT !.values = rest]]
    ELSE [ret |-> None, mat |-> m]

\* ------------------------------------------------------------------ matmul

RECURSIVE CloneColumn(_, _, _, _)
\* lib.rs:238-241: b_col from row.get(i_b).unwrap().clone() over the rows of b.
CloneColumn(bv, k, i_b, b_col) ==
    IF k > Len(bv) THEN [kind |-> "Ok", b |-> bv, b_col |-> b_col]
    ELSE IF i_b + 1 > Len(bv[k]) THEN Panic
    ELSE CloneColumn(bv, k + 1, i_b, Append(b_col, bv[k][i_b + 1]))

RECURSIVE MoveColumn(_, _, _)
\* lib.rs:244-246: b_col from row.pop_front().unwrap() over the rows of b.
MoveColumn(bv, k, b_col) ==
    IF k > Len(bv) THEN [kind |-> "Ok", b |-> bv, b_col |-> b_col]
    ELSE IF Len(bv[k]) = 0 THEN Panic
    ELSE MoveColumn([bv EXCEPT ![k] = Tail(@)], k + 1, Append(b_col, Head(bv[k])))

RECURSIVE DotFoldDescending(_, _, _)
\* Mutant of DotFold: the remaining products are added last pair first.
DotFoldDescending(dot_acc, a_row, b_col) ==
    IF Len(a_row) = 0 \/ Len(b_col) = 0 THEN dot_acc
    ELSE LET n == IF Len(a_row) < Len(b_col) THEN Len(a_row) ELSE Len(b_col)
         IN  DotFoldDescending(ElAdd(dot_acc, ElMul(a_row[n], b_col[n])),
                               SubSeq(a_row, 1, n - 1), SubSeq(b_col, 1, n - 1))

RECURSIVE DotFold(_, _, _)
\* lib.rs:263-266: zip(a_row, b_col).fold(dot, |acc, (a, b)| acc += a * b).
DotFold(dot_acc, a_row, b_col) ==
    IF Len(a_row) = 0 \/ Len(b_col) = 0 THEN dot_acc
    ELSE DotFold(ElAdd(dot_acc, ElMul(Head(a_row), Head(b_col))), Tail(a_row), Tail(b_col))

\* lib.rs:261-267: the first product seeds the accumulator.
Dot(a_row, b_col) ==
    IF Len(a_row) = 0 \/ Len(b_col) = 0 THEN Panic
    ELSE [kind |-> "Ok",
          dot  |-> IF Len(Tail(a_row)) # 0
                   THEN DotFold(ElMul(Head(a_row), Head(b_col)), Tail(a_row), Tail(b_col))
                   ELSE ElMul(Head(a_row), Head(b_col))]

\* Mutant of MatmulCell: the row of a is cloned on every pass, never moved.
MatmulCellKeepsRow(av, bv, j_a, i_b, nrows, ncols) ==
    LET col == IF j_a < nrows - 1 THEN CloneColumn(bv, 1, i_b, <<>>)
               ELSE MoveColumn(bv, 1, <<>>)
    IN  IF col.kind = "Panic" THEN Panic
        ELSE IF Len(av) = 0 THEN Panic
        ELSE LET d == Dot(av[1], col.b_col)
             IN  IF d.kind = "Panic" THEN Panic
                 ELSE [kind |-> "Ok", a |-> av, b |-> col.b, dot |-> d.dot]

\* lib.rs:233-268, one pass of the inner loop body on the working copies.
MatmulCell(av, bv, j_a, i_b, nrows, ncols) ==
    LET col == IF j_a < nrows - 1 THEN CloneColumn(bv, 1, i_b, <<>>)
               ELSE MoveColumn(bv, 1, <<>>)
    IN  IF col.kind = "Panic" THEN Panic
        ELSE IF Len(av) = 0 THEN Panic
        ELSE LET a_row == av[1]
                 av1   == IF i_b < ncols - 1 THEN av ELSE Tail(av)
                 d     == Dot(a_row, col.b_col)
             IN  IF d.kind = "Panic" THEN Panic
                 ELSE [kind |-> "Ok", a |-> av1, b |-> col.b, dot |-> d.dot]

RECURSIVE MatmulCols(_, _, _, _, _, _, _)
\* lib.rs:232-269: for i_b in 0..b.ncols.
MatmulCols(av, bv, j_a, i_b, nrows, ncols, res_row) ==
    IF i_b >= ncols THEN [kind |-> "Ok", a |-> av, b |-> bv, res_row |-> res_row]
    ELSE LET c == MatmulCell(av, bv, j_a, i_b, nrows, ncols)
         IN  IF c.kind = "Panic" THEN Panic
             ELSE MatmulCols(c.a, c.b, j_a, i_b + 1, nrows, ncols, Append(res_row, c.dot))

RECURSIVE MatmulRows(_, _, _, _, _, _)
\* lib.rs:230-272: for j_a in 0..a.nrows, then Ok(Matrix::new(res)).
MatmulRows(av, bv, j_a, nrows, ncols, res) ==
    IF j_a >= nrows THEN new(res)
    ELSE LET r == MatmulCols(av, bv, j_a, 0, nrows, ncols, <<>>)
         IN  IF r.kind = "Panic" THEN Panic
             ELSE MatmulRows(r.a, r.b, j_a + 1, nrows, ncols, Append(res, r.res_row))

\* Mutant of matmul: the error carries the shapes in the other order.
matmul_shapes_exchanged(self, b_in) ==
    IF self.ncols # b_in.nrows THEN DimMismatch(shape(b_in), shape(self))
    ELSE MatmulRows(self.values, b_in.values, 0, self.nrows, b_in.ncols, <<>>)

\* Matrix::matmul, lib.rs:221-273.
matmul(self, b_in) ==
    IF self.ncols # b_in.nrows THEN DimMismatch(shape(self), shape(b_in))
    ELSE MatmulRows(self.values, b_in.values, 0, self.nrows, b_in.ncols, <<>>)

\* ----------------------------------------------------- element-wise add, mul

\* Mutant of Broadcast: the replicated rows are not transposed back.
BroadcastNoTranspose(self, rhs) ==
    IF self.ncols = 0 THEN from_vecs(<<>>)
    ELSE LET t == transpose(rhs)
         IN  IF t.kind = "Panic" THEN Panic
             ELSE from_vecs([k \in 1..self.ncols |-> t.mat.values[Len(t.mat.values)]])

\* lib.rs:282-286: the column vector rhs replicated over self.ncols columns.
Broadcast(self, rhs) ==
    IF self.ncols = 0 THEN from_vecs(<<>>)
    ELSE LET t == transpose(rhs)
         IN  IF t.kind = "Panic" THEN Panic
             ELSE LET col == t.mat.values[Len(t.mat.values)]
                      fv  == from_vecs([k \in 1..self.ncols |-> col])
                  IN  IF fv.kind = "Panic" THEN Panic ELSE transpose(fv.mat)

RECURSIVE AddLoopKeepsRows(_, _, _, _, _, _, _)
\* Mutant of AddLoop: the emptied first rows are not popped at the row end.
AddLoopKeepsRows(sv, rv, j, i, nrows, ncols, res) ==
    IF j >= nrows THEN new(res)
    ELSE IF i >= ncols THEN AddLoopKeepsRows(sv, rv, j + 1, 0, nrows, ncols, res)
    ELSE IF Len(sv) = 0 \/ Len(rv) = 0 THEN Panic
    ELSE IF Len(sv[1]) = 0 \/ Len(rv[1]) = 0 THEN Panic
    ELSE LET res1 == IF i = 0 THEN Append(res, <<>>) ELSE res
             res2 == [res1 EXCEPT ![Len(res1)] = Append(@, ElAdd(Head(sv[1]), Head(rv[1])))]
         IN  AddLoopKeepsRows([sv EXCEPT ![1] = Tail(@)], [rv EXCEPT ![1] = Tail(@)],
                              j, i + 1, nrows, ncols, res2)

RECURSIVE AddLoop(_, _, _, _, _, _, _)
\* lib.rs:291-306: pops the fronts of both operands cell by cell.
AddLoop(sv, rv, j, i, nrows, ncols, res) ==
    IF j >= nrows THEN new(res)
    ELSE IF i >= ncols THEN AddLoop(sv, rv, j + 1, 0, nrows, ncols, res)
    ELSE IF Len(sv) = 0 \/ Len(rv) = 0 THEN Panic
    ELSE IF Len(sv[1]) = 0 \/ Len(rv[1]) = 0 THEN Panic
    ELSE LET res1 == IF i = 0 THEN Append(res, <<>>) ELSE res
             res2 == [res1 EXCEPT ![Len(res1)] = Append(@, ElAdd(Head(sv[1]), Head(rv[1])))]
             sv1  == [sv EXCEPT ![1] = Tail(@)]
             rv1  == [rv EXCEPT ![1] = Tail(@)]
         IN  IF i = ncols - 1
             THEN AddLoop(Tail(sv1), Tail(rv1), j, i + 1, nrows, ncols, res2)
             ELSE AddLoop(sv1, rv1, j, i + 1, nrows, ncols, res2)

\* impl Add for Matrix<T>, lib.rs:278-307.
add(self, rhs) ==
    IF shape(self) # shape(rhs)
    THEN IF rhs.ncols = 1 /\ self.nrows = rhs.nrows
         THEN LET r == Broadcast(self, rhs)
              IN  IF r.kind = "Panic" THEN Panic
                  ELSE AddLoop(self.values, r.mat.values, 0, 0, self.nrows, self.ncols, <<>>)
         ELSE Panic
    ELSE AddLoop(self.values, rhs.values, 0, 0, self.nrows, self.ncols, <<>>)

RECURSIVE MulLoop(_, _, _, _, _, _, _)
\* lib.rs:343-358: as the loop of add, with the product.
MulLoop(sv, rv, j, i, nrows, ncols, res) ==
    IF j >= nrows THEN new(res)
    ELSE IF i >= ncols THEN MulLoop(sv, rv, j + 1, 0, nrows, ncols, res)
    ELSE IF Len(sv) = 0 \/ Len(rv) = 0 THEN Panic
    ELSE IF Len(sv[1]) = 0 \/ Len(rv[1]) = 0 THEN Panic
    ELSE LET res1 == IF i = 0 THEN Append(res, <<>>) ELSE res
             res2 == [res1 EXCEPT ![Len(res1)] = Append(@, ElMul(Head(sv[1]), Head(rv[1])))]
             sv1  == [sv EXCEPT ![1] = Tail(@)]
             rv1  == [rv EXCEPT ![1] = Tail(@)]
         IN  IF i = ncols - 1
             THEN MulLoop(Tail(sv1), Tail(rv1), j, i + 1, nrows, ncols, res2)
             ELSE MulLoop(sv1, rv1, j, i + 1, nrows, ncols, res2)

\* impl Mul for Matrix<T>, lib.rs:341-359: no shape test before the loop.
mul(self, rhs) == MulLoop(self.values, rhs.values, 0, 0, self.nrows, self.ncols, <<>>)

\* ----------------------------------------------------------------- dim_sum

RECURSIVE ColumnSum(_, _, _, _)
\* lib.rs:317-319: column_sum += self.at((j, i)).unwrap() for j in 1..nrows.
ColumnSum(m, i, j, column_sum) ==
    IF j >= m.nrows THEN Some(column_sum)
    ELSE IF at(m, j, i).kind = "None" THEN Panic
    ELSE ColumnSum(m, i, j + 1, ElAdd(column_sum, at(m, j, i).el))

RECURSIVE ColumnSums(_, _, _)
\* lib.rs:315-321: for i in 0..ncols, starting each sum from the cell of row 0.
ColumnSums(m, i, res) ==
    IF i >= m.ncols THEN [kind |-> "Ok", res |-> res]
    ELSE IF at(m, 0, i).kind = "None" THEN Panic
    ELSE LET s == ColumnSum(m, i, 1, at(m, 0, i).el)
         IN  IF s.kind = "Panic" THEN Panic ELSE ColumnSums(m, i + 1, Append(res, s.el))

RECURSIVE RowSum(_, _, _, _)
\* lib.rs:328-330: row_sum += self.at((j, i)).unwrap() for i in 1..ncols.
RowSum(m, j, i, row_sum) ==
    IF i >= m.ncols THEN Some(row_sum)
    ELSE IF at(m, j, i).kind = "None" THEN Panic
    ELSE RowSum(m, j, i + 1, ElAdd(row_sum, at(m, j, i).el))

RECURSIVE RowSums(_, _, _)
\* lib.rs:326-332: for j in 0..nrows, starting each sum from the cell of column 0.
RowSums(m, j, res) ==
    IF j >= m.nrows THEN [kind |-> "Ok", res |-> res]
    ELSE IF at(m, j, 0).kind = "None" THEN Panic
    ELSE LET s == RowSum(m, j, 1, at(m, j, 0).el)
         IN  IF s.kind = "Panic" THEN Panic ELSE RowSums(m, j + 1, Append(res, s.el))

\* Mutant of dim_sum: the row sums are returned as a row, not transposed.
dim_sum_no_transpose(m, dim) ==
    IF dim = 0
    THEN LET c == ColumnSums(m, 0, <<>>)
         IN  IF c.kind = "Panic" THEN Panic ELSE from_vecs(<<c.res>>)
    ELSE IF dim = 1
    THEN LET r == RowSums(m, 0, <<>>)
         IN  IF r.kind = "Panic" THEN Panic ELSE from_vecs(<<r.res>>)
    ELSE Panic

\* Matrix::dim_sum, lib.rs:311-336.
dim_sum(m, dim) ==
    IF dim = 0
    THEN LET c == ColumnSums(m, 0, <<>>)
         IN  IF c.kind = "Panic" THEN Panic ELSE from_vecs(<<c.res>>)
    ELSE IF dim = 1
    THEN LET r == RowSums(m, 0, <<>>)
         IN  IF r.kind = "Panic" THEN Panic
             ELSE LET fv == from_vecs(<<r.res>>)
                  IN  IF fv.kind = "Panic" THEN Panic ELSE transpose(fv.mat)
    ELSE Panic

\* -------------------------------------------------------------------- fill

\* Matrix::fill, lib.rs:207-217: shape.0 rows of shape.1 clones of element.
fill(sh, element) == new([j \in 1..sh[1] |-> [i \in 1..sh[2] |-> element]])

\* ----------------------------------------------------------- state machine

\* The shapes a constructor is asked for: at most n cells.
Shapes(n) == {s \in (1..n) \X (1..n) : s[1] * s[2] <= n}

\* The nested sequences handed to Matrix::new: every rectangular grid over
\* Elems of a shape in Shapes(n), and the single row without cells.
Grids(n) == UNION {[1..s[1] -> [1..s[2] -> Elems]] : s \in Shapes(n)} \cup {<< <<>> >>}

\* The matrices Matrix::new returns for them.
Operands == {new(g).mat : g \in Grids(MaxCells)}

\* The same, for the object whose whole life is followed.
LifeOperands == {new(g).mat : g \in Grids(MaxLifeCells)}

\* The matrices Matrix::fill returns for the shapes of LifeOperands.
Fills == {fill(s, v).mat : s \in Shapes(MaxLifeCells) \cup {<<1, 0>>}, v \in Elems}

NoArg == [kind |-> "none"]

VARIABLES
    a,       \* the matrix object the operations are called on (self)
    live,    \* a is usable: not moved into a consuming call, no panic so far
    op,      \* the last operation
    arg,     \* its argument: the other matrix, the dim, the cell index
    prev,    \* a as it was when the last operation was called
    res,     \* what the last operation returned
    run,     \* how many times in a row op has been applied to the object
    base,    \* a as it was when this run of op began
    pulled,  \* what the next() calls of this run returned, in order
    work     \* the locals of a matmul call that is followed pass by pass

vars == <<a, live, op, arg, prev, res, run, base, pulled, work>>

\* No matmul call is being followed.
NoWork == [pc |-> "idle"]

\* let mut a = Matrix::new(g), for a in M
Constructed(M) ==
    /\ a \in M
    /\ live = TRUE
    /\ op = "new"
    /\ arg = NoArg
    /\ prev = a
    /\ res = Ok(a)
    /\ run = 1
    /\ base = a
    /\ pulled = <<>>
    /\ work = NoWork

Init == Constructed(Operands)

\* The operations whose repeated application to one object is followed.
Repeated == {"transpose", "next"}

\* Bookkeeping shared by the actions: the run of op and where it began.
Track(o) ==
    /\ op' = o
    /\ prev' = a
    /\ run' = IF op = o /\ o \in Repeated THEN run + 1 ELSE 1
    /\ base' = IF op = o /\ o \in Repeated THEN base ELSE a
    /\ UNCHANGED work

\* a = a.transpose(): a is moved into the call and rebound to the result.
Transpose ==
    /\ live
    /\ op = "transpose" => run < MaxRun
    /\ Track("transpose")
    /\ arg' = NoArg
    /\ res' = transpose(a)
    /\ live' = (res'.kind = "Ok")
    /\ a' = IF res'.kind = "Ok" THEN res'.mat ELSE a
    /\ pulled' = <<>>

\* a.next()
IterNext ==
    /\ live
    /\ op = "next" => Len(pulled) < base.nrows * base.ncols + ExtraPulls
    /\ Track("next")
    /\ arg' = NoArg
    /\ res' = next(a).ret
    /\ a' = next(a).mat
    /\ pulled' = IF op = "next" THEN Append(pulled, res') ELSE <<res'>>
    /\ UNCHANGED live

\* *a.at_mut((j, i)) = v when the cell exists; the indices go one past the
\* cached counts.
AtMut ==
    /\ live
    /\ \E j \in 0..a.nrows, i \in 0..a.ncols, v \in Elems :
        /\ arg' = [kind |-> "idx", j |-> j, i |-> i, v |-> v]
        /\ res' = IF at(a, j, i).kind = "Some" THEN Some(v) ELSE None
        /\ a' = at_mut(a, j, i, v)
    /\ Track("at_mut")
    /\ pulled' = <<>>
    /\ UNCHANGED live

\* a.matmul(&b) for b in B: both operands are borrowed
Matmul(B) ==
    /\ live
    /\ \E b \in B :
        /\ arg' = [kind |-> "mat", mat |-> b]
        /\ res' = matmul(a, b)
    /\ live' = (res'.kind # "Panic")
    /\ Track("matmul")
    /\ pulled' = <<>>
    /\ UNCHANGED a

\* a.dim_sum(dim): a is borrowed
DimSum ==
    /\ live
    /\ \E dim \in 0..2 :
        /\ arg' = [kind |-> "dim", dim |-> dim]
        /\ res' = dim_sum(a, dim)
    /\ live' = (res'.kind # "Panic")
    /\ Track("dim_sum")
    /\ pulled' = <<>>
    /\ UNCHANGED a

\* a + b for b in B: both operands are moved into the call
Add(B) ==
    /\ live
    /\ \E b \in B :
        /\ arg' = [kind |-> "mat", mat |-> b]
        /\ res' = add(a, b)
    /\ live' = FALSE
    /\ Track("add")
    /\ pulled' = <<>>
    /\ UNCHANGED a

\* a * b for b in B: both operands are moved into the call
Mul(B) ==
    /\ live
    /\ \E b \in B :
        /\ arg' = [kind |-> "mat", mat |-> b]
        /\ res' = mul(a, b)
    /\ live' = FALSE
    /\ Track("mul")
    /\ pulled' = <<>>
    /\ UNCHANGED a

\* One operation on freshly constructed operands: every pair of matrices
\* that Matrix::new returns meets in every binary operation.
CallTranspose == op = "new" /\ Transpose

CallMatmul == op = "new" /\ Matmul(Operands)

CallDimSum == op = "new" /\ DimSum

CallAdd == op = "new" /\ Add(Operands)

CallMul == op = "new" /\ Mul(Operands)

Next ==
    \/ CallTranspose
    \/ CallMatmul
    \/ CallDimSum
    \/ CallAdd
    \/ CallMul

Spec == Init /\ [][Next]_vars

\* The life of one object: any sequence of operations on it, the other
\* operand of a binary operation being built by Matrix::fill.
LifeTranspose == Transpose

LifeNext == IterNext

LifeAtMut == AtMut

LifeMatmul == Matmul(Fills)

LifeDimSum == DimSum

LifeAdd == Add(Fills)

LifeMul == Mul(Fills)

NextLife ==
    \/ LifeTranspose
    \/ LifeNext
    \/ LifeAtMut
    \/ LifeMatmul
    \/ LifeDimSum
    \/ LifeAdd
    \/ LifeMul

InitLife == Constructed(LifeOperands)

SpecLife == InitLife /\ [][NextLife]_vars

\* ------------------------------------------------------------ claim helpers

\* The stored grid agrees with the cached counts.
Grid(m) ==
    /\ Len(m.values) = m.nrows
    /\ \A j \in 1..Len(m.values) : Len(m.values[j]) = m.ncols

\* A matrix of the data model: a full r x c grid with r, c >= 1.
Valid(m) == Grid(m) /\ m.nrows >= 1 /\ m.ncols >= 1

\* The cell at 0-based row j, column i.
Cell(m, j, i) == m.values[j + 1][i + 1]

\* res is a returned matrix that is a full grid of shape (r, c).
Returns(r, c) ==
    /\ res.kind = "Ok"
    /\ shape(res.mat) = <<r, c>>
    /\ Grid(res.mat)

RECURSIVE SumProducts(_, _, _, _, _)
\* A[j][0]*B[0][i] + A[j][1]*B[1][i] + ... + A[j][k]*B[k][i], left to right.
SumProducts(A, B, j, i, k) ==
    IF k = 0 THEN ElMul(Cell(A, j, 0), Cell(B, 0, i))
    ELSE ElAdd(SumProducts(A, B, j, i, k - 1), ElMul(Cell(A, j, k), Cell(B, k, i)))

\* C1: for A of shape (r,n) and B of shape (n,c) with r,n,c >= 1, matmul
\* returns Ok with a matrix of shape (r,c) whose cell [j][i] is the sum of
\* A[j][k] * B[k][i] accumulated in ascending k from the k = 0 product; it
\* does not fault.
C1_MatmulProduct ==
    (op = "matmul" /\ Valid(prev) /\ Valid(arg.mat) /\ prev.ncols = arg.mat.nrows) =>
        /\ Returns(prev.nrows, arg.mat.ncols)
        /\ \A j \in 0..(prev.nrows - 1), i \in 0..(arg.mat.ncols - 1) :
              Cell(res.mat, j, i) = SumProducts(prev, arg.mat, j, i, prev.ncols - 1)

\* A 2x3 by 3x2 product (rows of A and columns of B both cloned and moved)
\* in which the saturating sum depends on the order of accumulation.
C1_Witness ==
    /\ op = "matmul" /\ Valid(prev) /\ Valid(arg.mat)
    /\ shape(prev) = <<2, 3>> /\ shape(arg.mat) = <<3, 2>>
    /\ res.kind = "Ok"
    /\ Cell(res.mat, 0, 0) #
          ElAdd(ElMul(Cell(prev, 0, 0), Cell(arg.mat, 0, 0)),
                ElAdd(ElMul(Cell(prev, 0, 1), Cell(arg.mat, 1, 0)),
                      ElMul(Cell(prev, 0, 2), Cell(arg.mat, 2, 0))))

\* C2: matmul returns Err(DimMismatch(shape(A), shape(B))), A's shape first,
\* exactly when cols(A) # rows(B); the mismatch is an Err value, not a panic.
C2_DimMismatchIff ==
    op = "matmul" =>
        IF prev.ncols # arg.mat.nrows
        THEN res = DimMismatch(shape(prev), shape(arg.mat))
        ELSE res.kind # "Err"

\* A mismatch between operands of different shapes.
C2_Witness ==
    /\ op = "matmul" /\ res.kind = "Err"
    /\ Valid(prev) /\ Valid(arg.mat)
    /\ shape(prev) # shape(arg.mat)
    /\ res.a = shape(prev) /\ res.b = shape(arg.mat)

\* C3: for A and B of equal shape (r,c), A + B and A * B each return a
\* matrix of shape (r,c) whose cell [j][i] is A[j][i] + B[j][i], respectively
\* A[j][i] * B[j][i].
C3_Elementwise ==
    (op \in {"add", "mul"} /\ Valid(prev) /\ Valid(arg.mat)
        /\ shape(prev) = shape(arg.mat)) =>
        /\ Returns(prev.nrows, prev.ncols)
        /\ \A j \in 0..(prev.nrows - 1), i \in 0..(prev.ncols - 1) :
              Cell(res.mat, j, i) =
                  IF op = "add"
                  THEN ElAdd(Cell(prev, j, i), Cell(arg.mat, j, i))
                  ELSE ElMul(Cell(prev, j, i), Cell(arg.mat, j, i))

\* A 2x3 sum whose operands differ.
C3_Witness ==
    /\ op = "add" /\ Valid(prev) /\ Valid(arg.mat)
    /\ shape(prev) = <<2, 3>> /\ shape(arg.mat) = <<2, 3>>
    /\ prev # arg.mat
    /\ res.kind = "Ok"

\* The right operand is a column vector with as many rows as the left one.
ColumnOf(A, V) == V.ncols = 1 /\ V.nrows = A.nrows

\* C4: when the shapes of the operands of add differ, a right operand V with
\* one column and A's row count gives a matrix of A's shape with cell
\* [j][i] = A[j][i] + V[j][0]; every other pair of differing shapes fails and
\* returns no matrix.
C4_BroadcastAdd ==
    (op = "add" /\ Valid(prev) /\ shape(prev) # shape(arg.mat)) =>
        IF ColumnOf(prev, arg.mat)
        THEN Valid(arg.mat) =>
                /\ Returns(prev.nrows, prev.ncols)
                /\ \A j \in 0..(prev.nrows - 1), i \in 0..(prev.ncols - 1) :
                      Cell(res.mat, j, i) = ElAdd(Cell(prev, j, i), Cell(arg.mat, j, 0))
        ELSE res.kind = "Panic"

\* A 2x3 matrix plus a 2x1 column whose two cells differ.
C4_Witness ==
    /\ op = "add" /\ Valid(prev) /\ Valid(arg.mat)
    /\ shape(prev) = <<2, 3>> /\ shape(arg.mat) = <<2, 1>>
    /\ Cell(arg.mat, 0, 0) # Cell(arg.mat, 1, 0)
    /\ res.kind = "Ok"

\* C5: whenever A * B returns a matrix, shape(A) = shape(B).
C5_MulNeedsEqualShapes ==
    (op = "mul" /\ Valid(prev) /\ Valid(arg.mat) /\ res.kind = "Ok") =>
        shape(prev) = shape(arg.mat)

\* C6: for M of shape (r,c) with r,c >= 1, transpose(M) has shape (c,r) and
\* transpose(M)[i][j] = M[j][i] for all 0 <= i < c, 0 <= j < r.
C6_Transpose ==
    (op = "transpose" /\ Valid(prev)) =>
        /\ Returns(prev.ncols, prev.nrows)
        /\ \A i \in 0..(prev.ncols - 1), j \in 0..(prev.nrows - 1) :
              Cell(res.mat, i, j) = Cell(prev, j, i)

\* The transpose of a 2x3 matrix whose corners differ.
C6_Witness ==
    /\ op = "transpose" /\ Valid(prev)
    /\ shape(prev) = <<2, 3>>
    /\ Cell(prev, 0, 2) # Cell(prev, 1, 0)
    /\ res.kind = "Ok"

\* C7: a valid matrix transposed twice is the matrix it was, in values, row
\* count and column count.
C7_TransposeTwice ==
    (op = "transpose" /\ run = 2 /\ Valid(base)) =>
        /\ live
        /\ a.values = base.values
        /\ a.nrows = base.nrows
        /\ a.ncols = base.ncols

\* Two transposes in a row of a 2x2 matrix that is not symmetric.
C7_Witness ==
    /\ op = "transpose" /\ run = 2 /\ Valid(base)
    /\ shape(base) = <<2, 2>>
    /\ Cell(base, 0, 1) # Cell(base, 1, 0)
    /\ live

RECURSIVE SumColumn(_, _, _)
\* M[0][i] + M[1][i] + ... + M[j][i], accumulated in ascending row order.
SumColumn(M, i, j) ==
    IF j = 0 THEN Cell(M, 0, i) ELSE ElAdd(SumColumn(M, i, j - 1), Cell(M, j, i))

RECURSIVE SumRow(_, _, _)
\* M[j][0] + M[j][1] + ... + M[j][i], accumulated in ascending column order.
SumRow(M, j, i) ==
    IF i = 0 THEN Cell(M, j, 0) ELSE ElAdd(SumRow(M, j, i - 1), Cell(M, j, i))

\* C8: for M of shape (r,c), dim_sum(M, 0) is the (1,c) matrix of the column
\* sums, dim_sum(M, 1) the (r,1) matrix of the row sums, any other dim is a
\* fault that returns no matrix; M is left unchanged.
C8_DimSum ==
    (op = "dim_sum" /\ Valid(prev)) =>
        /\ a = prev
        /\ arg.dim = 0 =>
              /\ Returns(1, prev.ncols)
              /\ \A i \in 0..(prev.ncols - 1) :
                    Cell(res.mat, 0, i) = SumColumn(prev, i, prev.nrows - 1)
        /\ arg.dim = 1 =>
              /\ Returns(prev.nrows, 1)
              /\ \A j \in 0..(prev.nrows - 1) :
                    Cell(res.mat, j, 0) = SumRow(prev, j, prev.ncols - 1)
        /\ arg.dim \notin {0, 1} => res.kind = "Panic"

\* The row sums of a 2x3 matrix, the two sums differing.
C8_Witness ==
    /\ op = "dim_sum" /\ Valid(prev)
    /\ shape(prev) = <<2, 3>>
    /\ arg.dim = 1
    /\ res.kind = "Ok"
    /\ Cell(res.mat, 0, 0) # Cell(res.mat, 1, 0)

\* C9: draining a matrix of shape (r,c) with next() yields r*c elements in
\* row-major order, the k-th pull (from 0) being original[k div c][k mod c];
\* every later call returns None, and a drained matrix stores no elements.
C9_Drain ==
    (op = "next" /\ Valid(base)) =>
        /\ \A k \in 0..(Len(pulled) - 1) :
              pulled[k + 1] =
                  IF k < base.nrows * base.ncols
                  THEN Some(Cell(base, k \div base.ncols, k % base.ncols))
                  ELSE None
        /\ Len(pulled) >= base.nrows * base.ncols =>
              \A j \in 1..Len(a.values) : Len(a.values[j]) = 0

\* A 2x2 matrix drained and pulled twice more.
C9_Witness ==
    /\ op = "next" /\ Valid(base)
    /\ shape(base) = <<2, 2>>
    /\ Len(pulled) = 6
    /\ pulled[4].kind = "Some" /\ pulled[5].kind = "None" /\ pulled[6].kind = "None"

\* C10: in every reachable state each Matrix has rows of length ncols and
\* as many rows as nrows.
C10_ShapeDescribesGrid ==
    /\ live => Grid(a)
    /\ res.kind = "Ok" => Grid(res.mat)

\* ------------------------------------------------------------ constructors

\* What Matrix::new and Matrix::from_vecs are asked to wrap: the grids of
\* Grids, no row at all, and two rows without cells.
DataRequests == Grids(MaxLifeCells) \cup {<<>>, << <<>>, <<>> >>}

\* The shapes Matrix::fill is asked for, zero rows and zero columns included.
ShapeRequests ==
    {s \in (0..MaxLifeCells) \X (0..MaxLifeCells) : s[1] * s[2] <= MaxLifeCells}

\* a = <constructor call>: a is rebound when the call returns.
Rebind(o) ==
    /\ live
    /\ Track(o)
    /\ live' = (res'.kind = "Ok")
    /\ a' = IF res'.kind = "Ok" THEN res'.mat ELSE a
    /\ pulled' = <<>>

\* a = Matrix::new(data)
BuildNew ==
    /\ \E g \in DataRequests :
        /\ arg' = [kind |-> "data", data |-> g]
        /\ res' = new(g)
    /\ Rebind("new")

\* a = Matrix::from_vecs(data)
BuildFromVecs ==
    /\ \E g \in DataRequests :
        /\ arg' = [kind |-> "data", data |-> g]
        /\ res' = from_vecs(g)
    /\ Rebind("from_vecs")

\* a = Matrix::fill(shape, element)
BuildFill ==
    /\ \E s \in ShapeRequests, v \in Elems :
        /\ arg' = [kind |-> "shape", shape |-> s, element |-> v]
        /\ res' = fill(s, v)
    /\ Rebind("fill")

NextBuild ==
    \/ BuildNew
    \/ BuildFromVecs
    \/ BuildFill

\* The constructors called one after the other, each result bound to a.
SpecBuild == InitLife /\ [][NextBuild]_vars

\* The request of the last constructor call asks for no row or no column.
ZeroRequest ==
    \/ arg.kind = "data" /\ (Len(arg.data) = 0 \/ Len(arg.data[1]) = 0)
    \/ arg.kind = "shape" /\ (arg.shape[1] = 0 \/ arg.shape[2] = 0)

\* C11: every Matrix returned by new, from_vecs or fill has nrows >= 1 and
\* ncols >= 1, and a request for zero rows or zero columns yields no matrix.
C11_NoEmptyMatrix ==
    (op \in {"new", "from_vecs", "fill"} /\ arg.kind \in {"data", "shape"}) =>
        /\ res.kind = "Ok" => (res.mat.nrows >= 1 /\ res.mat.ncols >= 1)
        /\ ZeroRequest => res.kind # "Ok"

\* ----------------------------------------------------------------- softmax

(***************************************************************************)
(* softmax needs T: Exp + Clone + AddAssign + Add + Div.  For it the model *)
(* instantiates T with the exact rationals [num, den] in lowest terms, and *)
(* Exp with x |-> 2^x on the integers: positive and exact, so that a       *)
(* quotient by a sum and a sum of quotients can be compared exactly.       *)
(***************************************************************************)

RECURSIVE Gcd(_, _)
Gcd(x, y) == IF y = 0 THEN x ELSE Gcd(y, x % y)

Abs(x) == IF x < 0 THEN -x ELSE x

\* The rational n / d (d # 0) in lowest terms with a positive denominator.
Q(n, d) ==
    LET g == Gcd(Abs(n), Abs(d))
        sgn == IF d < 0 THEN -1 ELSE 1
    IN  [num |-> sgn * (n \div g), den |-> sgn * (d \div g)]

\* T: Add<Output = T> / AddAssign
QAdd(x, y) == Q(x.num * y.den + y.num * x.den, x.den * y.den)

\* T: Div<Output = T>
QDiv(x, y) == Q(x.num * y.den, x.den * y.num)

RECURSIVE Pow2(_)
Pow2(n) == IF n = 0 THEN 1 ELSE 2 * Pow2(n - 1)

\* T: Exp, on an integer x
QExp(x) == IF x.num >= 0 THEN Q(Pow2(x.num), x.den) ELSE Q(x.den, Pow2(-x.num))

\* impl Exp for Matrix<T>, lib.rs:153-160: every cell replaced by its exp.
exp(m) ==
    [m EXCEPT !.values =
        [j \in 1..Len(m.values) |-> [i \in 1..Len(m.values[j]) |-> QExp(m.values[j][i])]]]

RECURSIVE QColumnSum(_, _, _, _)
\* lib.rs:317-319 at the element type of softmax.
QColumnSum(m, i, j, column_sum) ==
    IF j >= m.nrows THEN Some(column_sum)
    ELSE IF at(m, j, i).kind = "None" THEN Panic
    ELSE QColumnSum(m, i, j + 1, QAdd(column_sum, at(m, j, i).el))

RECURSIVE QColumnSums(_, _, _)
\* lib.rs:315-321 at the element type of softmax.
QColumnSums(m, i, res_) ==
    IF i >= m.ncols THEN [kind |-> "Ok", res |-> res_]
    ELSE IF at(m, 0, i).kind = "None" THEN Panic
    ELSE LET s == QColumnSum(m, i, 1, at(m, 0, i).el)
         IN  IF s.kind = "Panic" THEN Panic ELSE QColumnSums(m, i + 1, Append(res_, s.el))

RECURSIVE QRowSum(_, _, _, _)
\* lib.rs:328-330 at the element type of softmax.
QRowSum(m, j, i, row_sum) ==
    IF i >= m.ncols THEN Some(row_sum)
    ELSE IF at(m, j, i).kind = "None" THEN Panic
    ELSE QRowSum(m, j, i + 1, QAdd(row_sum, at(m, j, i).el))

RECURSIVE QRowSums(_, _, _)
\* lib.rs:326-332 at the element type of softmax.
QRowSums(m, j, res_) ==
    IF j >= m.nrows THEN [kind |-> "Ok", res |-> res_]
    ELSE IF at(m, j, 0).kind = "None" THEN Panic
    ELSE LET s == QRowSum(m, j, 1, at(m, j, 0).el)
         IN  IF s.kind = "Panic" THEN Panic ELSE QRowSums(m, j + 1, Append(res_, s.el))

\* Matrix::dim_sum, lib.rs:311-336, at the element type of softmax.
QDimSum(m, dim) ==
    IF dim = 0
    THEN LET c == QColumnSums(m, 0, <<>>)
         IN  IF c.kind = "Panic" THEN Panic ELSE from_vecs(<<c.res>>)
    ELSE IF dim = 1
    THEN LET r == QRowSums(m, 0, <<>>)
         IN  IF r.kind = "Panic" THEN Panic
             ELSE LET fv == from_vecs(<<r.res>>)
                  IN  IF fv.kind = "Panic" THEN Panic ELSE transpose(fv.mat)
    ELSE Panic

RECURSIVE SoftmaxLoop(_, _, _, _, _, _)
\* lib.rs:170-175 and 179-184: res[j][i] = e[j][i] / sums[0][i] for dim 0,
\* e[j][i] / sums[j][0] for dim 1, over j in 0..nrows and i in 0..ncols of self.
SoftmaxLoop(res_, e, sums, dim, j, i) ==
    IF j >= res_.nrows THEN Ok(res_)
    ELSE IF i >= res_.ncols THEN SoftmaxLoop(res_, e, sums, dim, j + 1, 0)
    ELSE LET s == IF dim = 0 THEN at(sums, 0, i) ELSE at(sums, j, 0)
         IN  IF at(e, j, i).kind = "None" \/ s.kind = "None" \/ at(res_, j, i).kind = "None"
             THEN Panic
             ELSE SoftmaxLoop(at_mut(res_, j, i, QDiv(at(e, j, i).el, s.el)),
                              e, sums, dim, j, i + 1)

\* Mutant of softmax: the cells are divided without being exponentiated.
softmax_without_exp(m, dim) ==
    IF dim \in {0, 1}
    THEN LET sums == QDimSum(m, dim)
         IN  IF sums.kind = "Panic" THEN Panic
             ELSE SoftmaxLoop(m, m, sums.mat, dim, 0, 0)
    ELSE Panic

\* Matrix::softmax, lib.rs:164-189.
softmax(m, dim) ==
    LET e == exp(m)
    IN  IF dim \in {0, 1}
        THEN LET sums == QDimSum(e, dim)
             IN  IF sums.kind = "Panic" THEN Panic
                 ELSE SoftmaxLoop(m, e, sums.mat, dim, 0, 0)
        ELSE Panic

\* m with every cell v as the rational v / 1.
Rational(m) ==
    [m EXCEPT !.values =
        [j \in 1..Len(m.values) |-> [i \in 1..Len(m.values[j]) |-> Q(m.values[j][i], 1)]]]

\* The matrices Matrix::new returns for the grids of Grids with rational cells.
QOperands == {Rational(m) : m \in Operands}

InitSoftmax == Constructed(QOperands)

\* a.softmax(dim): a is borrowed
CallSoftmax ==
    /\ op = "new"
    /\ live
    /\ \E dim \in 0..2 :
        /\ arg' = [kind |-> "dim", dim |-> dim]
        /\ res' = softmax(a, dim)
    /\ live' = (res'.kind # "Panic")
    /\ Track("softmax")
    /\ pulled' = <<>>
    /\ UNCHANGED a

\* a = a.exp(): a is moved into the call and rebound to the result.
CallExp ==
    /\ op = "new"
    /\ live
    /\ arg' = NoArg
    /\ res' = Ok(exp(a))
    /\ a' = exp(a)
    /\ Track("exp")
    /\ pulled' = <<>>
    /\ UNCHANGED live

NextSoftmax ==
    \/ CallSoftmax
    \/ CallExp

\* One softmax or exp call on a freshly constructed matrix of rationals.
SpecSoftmax == InitSoftmax /\ [][NextSoftmax]_vars

RECURSIVE QSumColumn(_, _, _)
\* M[0][i] + M[1][i] + ... + M[j][i]
QSumColumn(M, i, j) ==
    IF j = 0 THEN Cell(M, 0, i) ELSE QAdd(QSumColumn(M, i, j - 1), Cell(M, j, i))

RECURSIVE QSumRow(_, _, _)
\* M[j][0] + M[j][1] + ... + M[j][i]
QSumRow(M, j, i) ==
    IF i = 0 THEN Cell(M, j, 0) ELSE QAdd(QSumRow(M, j, i - 1), Cell(M, j, i))

\* E = element-wise exp of the operand of the last call.
ExpOfPrev ==
    [values |-> [j \in 1..prev.nrows |-> [i \in 1..prev.ncols |-> QExp(prev.values[j][i])]],
     nrows |-> prev.nrows, ncols |-> prev.ncols]

\* C12: softmax(M, dim) of M of shape (r,c) has shape (r,c); with E the
\* element-wise exp of M, for dim 0 cell [j][i] is E[j][i] over the sum of
\* column i of E, for dim 1 E[j][i] over the sum of row j of E, so every line
\* along the reduced axis sums to 1; any other dim is a fault returning no
\* matrix.
C12_Softmax ==
    (op = "softmax" /\ Valid(prev)) =>
        /\ arg.dim = 0 =>
              /\ Returns(prev.nrows, prev.ncols)
              /\ \A j \in 0..(prev.nrows - 1), i \in 0..(prev.ncols - 1) :
                    Cell(res.mat, j, i) =
                        QDiv(Cell(ExpOfPrev, j, i), QSumColumn(ExpOfPrev, i, prev.nrows - 1))
              /\ \A i \in 0..(prev.ncols - 1) :
                    QSumColumn(res.mat, i, prev.nrows - 1) = Q(1, 1)
        /\ arg.dim = 1 =>
              /\ Returns(prev.nrows, prev.ncols)
              /\ \A j \in 0..(prev.nrows - 1), i \in 0..(prev.ncols - 1) :
                    Cell(res.mat, j, i) =
                        QDiv(Cell(ExpOfPrev, j, i), QSumRow(ExpOfPrev, j, prev.ncols - 1))
              /\ \A j \in 0..(prev.nrows - 1) :
                    QSumRow(res.mat, j, prev.ncols - 1) = Q(1, 1)
        /\ arg.dim \notin {0, 1} => res.kind = "Panic"

\* The column-wise softmax of a 2x3 matrix with a column of unequal cells.
C12_Witness ==
    /\ op = "softmax" /\ Valid(prev)
    /\ shape(prev) = <<2, 3>>
    /\ arg.dim = 0
    /\ res.kind = "Ok"
    /\ Cell(res.mat, 0, 0) # Cell(res.mat, 1, 0)

\* ------------------------------------------------- matmul, pass by pass

(***************************************************************************)
(* The loop of matmul followed one pass of its inner body at a time.  The  *)
(* rows of the working copy of a and the columns of the working copy of b  *)
(* are numbered as in the operands; rowids and colids are the numbers of   *)
(* those still held, in order.  cloneA / cloneB count the clones of each   *)
(* row / column, moveA / moveB list the i_b / j_a at which it was moved.   *)
(***************************************************************************)

\* a.matmul(&b), lib.rs:222-229: the dimension check, the working copies, res.
MatmulBegin ==
    /\ op = "new"
    /\ live
    /\ work.pc = "idle"
    /\ \E B \in LifeOperands :
        /\ arg' = [kind |-> "mat", mat |-> B]
        /\ IF a.ncols # B.nrows
           THEN /\ res' = DimMismatch(shape(a), shape(B))
                /\ work' = [pc |-> "err"]
           ELSE /\ res' = res
                /\ work' = [pc |-> "loop",
                            a |-> a.values, b |-> B.values,
                            nrows |-> a.nrows, ncols |-> B.ncols,
                            j_a |-> 0, i_b |-> 0,
                            res |-> <<>>, res_row |-> <<>>,
                            rowids |-> [k \in 1..a.nrows |-> k - 1],
                            colids |-> [k \in 1..B.ncols |-> k - 1],
                            cloneA |-> [k \in 0..(a.nrows - 1) |-> 0],
                            moveA  |-> [k \in 0..(a.nrows - 1) |-> <<>>],
                            cloneB |-> [k \in 0..(B.ncols - 1) |-> 0],
                            moveB  |-> [k \in 0..(B.ncols - 1) |-> <<>>]]
    /\ op' = "matmul_loop"
    /\ prev' = a
    /\ UNCHANGED <<a, live, run, base, pulled>>

\* lib.rs:232-268: one pass of the inner loop body.
MatmulIter ==
    /\ work.pc = "loop"
    /\ work.j_a < work.nrows
    /\ work.i_b < work.ncols
    /\ LET c == MatmulCell(work.a, work.b, work.j_a, work.i_b, work.nrows, work.ncols)
       IN  IF c.kind = "Panic"
           THEN /\ work' = [work EXCEPT !.pc = "fault"]
                /\ res' = Panic
                /\ live' = FALSE
           ELSE LET rowMoved == Len(c.a) < Len(work.a)
                    colMoved == \E k \in 1..Len(work.b) : Len(c.b[k]) < Len(work.b[k])
                    row == Head(work.rowids)
                    col == IF colMoved THEN Head(work.colids)
                           ELSE work.colids[work.i_b + 1]
                IN  /\ work' = [work EXCEPT
                            !.a = c.a,
                            !.b = c.b,
                            !.res_row = Append(@, c.dot),
                            !.i_b = @ + 1,
                            !.rowids = IF rowMoved THEN Tail(@) ELSE @,
                            !.colids = IF colMoved THEN Tail(@) ELSE @,
                            !.cloneA[row] = IF rowMoved THEN @ ELSE @ + 1,
                            !.moveA[row]  = IF rowMoved THEN Append(@, work.i_b) ELSE @,
                            !.cloneB[col] = IF colMoved THEN @ ELSE @ + 1,
                            !.moveB[col]  = IF colMoved THEN Append(@, work.j_a) ELSE @]
                    /\ UNCHANGED <<res, live>>
    /\ UNCHANGED <<a, op, arg, prev, run, base, pulled>>

\* lib.rs:270: res.push_back(res_row), and on to the next row of a.
MatmulRowDone ==
    /\ work.pc = "loop"
    /\ work.j_a < work.nrows
    /\ work.i_b >= work.ncols
    /\ work' = [work EXCEPT !.res = Append(@, work.res_row),
                            !.res_row = <<>>,
                            !.j_a = @ + 1,
                            !.i_b = 0]
    /\ UNCHANGED <<a, live, op, arg, prev, res, run, base, pulled>>

\* lib.rs:272: Ok(Matrix::new(res)).
MatmulReturn ==
    /\ work.pc = "loop"
    /\ work.j_a >= work.nrows
    /\ res' = new(work.res)
    /\ live' = (res'.kind # "Panic")
    /\ work' = [work EXCEPT !.pc = "done"]
    /\ UNCHANGED <<a, op, arg, prev, run, base, pulled>>

NextMatmul ==
    \/ MatmulBegin
    \/ MatmulIter
    \/ MatmulRowDone
    \/ MatmulReturn

\* One matmul call on a freshly constructed matrix, followed pass by pass.
SpecMatmul == InitLife /\ [][NextMatmul]_vars

\* A matmul of A (r x n) and B (n x c), both full grids, is being followed.
InMatmulLoop ==
    /\ op = "matmul_loop"
    /\ work.pc \in {"loop", "done", "fault"}
    /\ Valid(prev)
    /\ Valid(arg.mat)

\* C13: in the matmul loop over working copies of A (r x n) and B (n x c),
\* every row of A is cloned exactly c-1 times and moved out exactly once, on
\* the last column of B; every column of B is cloned exactly r-1 times and
\* moved out exactly once, on the last row of A; no removal is attempted on
\* an empty row or buffer; and when the loop ends the working copy of A has
\* no rows left and every row of the working copy of B is empty.
C13_MatmulClonesAndMoves ==
    InMatmulLoop =>
        LET r == prev.nrows
            n == prev.ncols
            c == arg.mat.ncols
            ended == work.j_a >= r
        IN  /\ work.pc # "fault"
            /\ \A k \in 0..(r - 1) :
                  /\ work.cloneA[k] <= c - 1
                  /\ Len(work.moveA[k]) <= 1
                  /\ \A x \in 1..Len(work.moveA[k]) : work.moveA[k][x] = c - 1
                  /\ ended => (work.cloneA[k] = c - 1 /\ Len(work.moveA[k]) = 1)
            /\ \A k \in 0..(c - 1) :
                  /\ work.cloneB[k] <= r - 1
                  /\ Len(work.moveB[k]) <= 1
                  /\ \A x \in 1..Len(work.moveB[k]) : work.moveB[k][x] = r - 1
                  /\ ended => (work.cloneB[k] = r - 1 /\ Len(work.moveB[k]) = 1)
            /\ ended =>
                  /\ work.a = <<>>
                  /\ Len(work.b) = n
                  /\ \A k \in 1..n : work.b[k] = <<>>

\* The loop of a 2x2 by 2x2 product has ended and the result was returned.
C13_Witness ==
    /\ InMatmulLoop
    /\ work.pc = "done"
    /\ shape(prev) = <<2, 2>>
    /\ shape(arg.mat) = <<2, 2>>
    /\ res.kind = "Ok"
    /\ work.cloneA = [k \in 0..1 |-> 1]
    /\ work.cloneB = [k \in 0..1 |-> 1]

====
